---------------------------- MODULE Spec2Model ----------------------------
(***************************************************************************)
(* A model of typeset-py: the layout combinators of typeset/dsl.py and the *)
(* render function of typeset/doc.py with its render state (_State), the   *)
(* state steps (_inc_pos, _indent, _newline, _reset, _offset) and the      *)
(* closures of render (_will_fit, _should_break, _visit_fix, and the       *)
(* visitors whose bodies are `...`).                                        *)
(*                                                                         *)
(* A Python string is a sequence of one-character strings.  A Python       *)
(* exception is an outcome record whose err field names the exception.     *)
(* A dict is a heap address; the heap holds the dicts' contents.           *)
(***************************************************************************)
EXTENDS Integers, Sequences, FiniteSets, TLC

VARIABLES
    tab,      \* render's parameter tab, as seen by the state steps
    width,    \* render's parameter width, as seen by render's closures
    state,    \* the _State value threaded through the steps
    op,       \* the name of the function applied last
    arg,      \* its argument besides the state
    pre,      \* the _State it was applied to
    ret,      \* its outcome
    start,    \* the _State the run started from
    calls,    \* the invocations of render, one frame each
    heap,     \* the dicts allocated so far (the marks of each _State)
    layout    \* the Layout the combinators built last

vars == <<tab, width, state, op, arg, pre, ret, start, calls, heap, layout>>

---------------------------------------------------------------------------
(* Bounds of the model *)

MaxTab == 3
MaxWidth == 2
MaxLvl == 6
MaxPos == 3
MaxLen == 1
MaxLeaves == 2
MaxCalls == 2
MaxNodes == 3

Chars == {"a", "b", "\n"}
Tabs == (0 - MaxTab)..MaxTab
Widths == 0..MaxWidth

Max(a, b) == IF a >= b THEN a ELSE b

\* str values of length at most n
RECURSIVE StrUpTo(_)
StrUpTo(n) ==
    IF n = 0 THEN {<<>>}
    ELSE LET shorter == StrUpTo(n - 1)
         IN shorter \cup {Append(s, c) : s \in shorter, c \in Chars}

Texts == StrUpTo(MaxLen)

HasNewline(s) == \E i \in 1..Len(s) : s[i] = "\n"

\* ' ' * n
RECURSIVE Spaces(_)
Spaces(n) == IF n <= 0 THEN <<>> ELSE <<" ">> \o Spaces(n - 1)

---------------------------------------------------------------------------
(* Outcomes of a Python call *)

None == [py |-> "None"]
PyInt(n) == [py |-> "int", v |-> n]
Ok(v) == [err |-> "none", val |-> v]
Raise(e) == [err |-> e, val |-> None]

\* a % b of Python ints: the result has the sign of b; b = 0 raises
PyMod(a, b) ==
    IF b = 0 THEN Raise("ZeroDivisionError")
    ELSE IF b > 0 THEN Ok(a % b)
    ELSE Ok(0 - ((0 - a) % (0 - b)))

\* a < b: an int against None is a TypeError
PyLt(a, b) ==
    IF a.py = "int" /\ b.py = "int" THEN Ok(a.v < b.v)
    ELSE Raise("TypeError")

---------------------------------------------------------------------------
(* doc.py: the render state *)

NoDict == {}

\* the address of the dict a `{}` expression allocates next
Alloc == Len(heap) + 1

\* a state whose marks dict is one dict shared by every call
_init_shared ==
    [head |-> TRUE, line |-> FALSE, lvl |-> 0, pos |-> 0, marks |-> 1]

_init ==
    [head |-> TRUE, line |-> FALSE, lvl |-> 0, pos |-> 0, marks |-> Alloc]

_inc_pos(st, value) == [st EXCEPT !.pos = st.pos + value]

\* a flat additive increment
_indent_additive(t, st) == Ok([st EXCEPT !.lvl = st.lvl + t])

\* `if tab <= 0: state` is an expression statement: it returns nothing and
\* the arithmetic below it runs for every tab
_indent(t, st) ==
    LET m == PyMod(st.lvl, t)
    IN IF m.err # "none" THEN m
       ELSE Ok([st EXCEPT !.lvl = st.lvl + (t - m.val)])

_newline(st) == [st EXCEPT !.head = TRUE, !.pos = 0]

\* a reset that also drops the indentation
_reset_lvl(st) == [st EXCEPT !.head = TRUE, !.line = FALSE, !.lvl = 0, !.pos = 0]

_reset(st) == [st EXCEPT !.head = TRUE, !.line = FALSE, !.pos = 0]

_offset(st) ==
    IF ~st.head THEN 0
    ELSE Max(0, st.lvl - st.pos)

---------------------------------------------------------------------------
(* doc.py: the fixed tree and the document objects *)

_FixText(data) == [tag |-> "_FixText", data |-> data]
_FixComp(left, right, pad) ==
    [tag |-> "_FixComp", left |-> left, right |-> right, pad |-> pad]

\* the fixed trees of exactly n leaves
RECURSIVE FixOfLeaves(_)
FixOfLeaves(n) ==
    IF n = 1 THEN {_FixText(d) : d \in Texts}
    ELSE UNION {{_FixComp(l, r, p) :
                    l \in FixOfLeaves(k), r \in FixOfLeaves(n - k), p \in BOOLEAN} :
                k \in 1..(n - 1)}

FixTrees == UNION {FixOfLeaves(n) : n \in 1..MaxLeaves}

_Text(data) == [tag |-> "_Text", data |-> data]
_Fix(fix) == [tag |-> "_Fix", fix |-> fix]
_Nest(obj) == [tag |-> "_Nest", obj |-> obj]

Objs == {_Text(<<"a">>), _Text(<<"\n">>), _Fix(_FixText(<<"a">>))}

---------------------------------------------------------------------------
(* doc.py: the closures of render *)

\* def _next_comp(obj, state) -> int: ...
_next_comp(obj, st) == None

\* a break test that consults the lookahead whatever the line flag
_should_break_lookahead(obj, st, w) == PyLt(PyInt(w), _next_comp(obj, st))

_should_break(obj, st, w) ==
    IF st.line THEN Ok(TRUE)
    ELSE PyLt(PyInt(w), _next_comp(obj, st))

---------------------------------------------------------------------------
(* doc.py: _visit_fix, the renderer of a fixed tree *)

\* the entries of _visit_fix's stack: the tuple (pad, fix) it starts with and
\* the bare object that stack.append(right) pushes
Pair(pad, fix) == [tuple |-> TRUE, pad |-> pad, fix |-> fix]
Bare(fix) == [tuple |-> FALSE, fix |-> fix]

\* the inner loop `while len(stack) != 0`, from one pop to the return
RECURSIVE FixLoop(_, _, _)
FixLoop(stack, st, result) ==
    IF Len(stack) = 0 THEN Ok([state |-> st, result |-> result])
    ELSE LET top == stack[Len(stack)]
             rest == SubSeq(stack, 1, Len(stack) - 1)
         IN IF ~top.tuple THEN Raise("TypeError")
            ELSE IF top.fix.tag = "_FixText"
            THEN FixLoop(rest,
                         _inc_pos(st, Len(top.fix.data) + top.pad),
                         result \o Spaces(top.pad) \o top.fix.data)
            ELSE FixLoop(Append(rest, Bare(top.fix.right)), st, result)

\* a fixed-tree renderer that breaks the line once pos passes the width
_visit_fix_wrap(fix, st, w) ==
    LET out == FixLoop(<<Pair(0, fix)>>, st, <<>>)
    IN IF out.err = "none" /\ out.val.state.pos > w
       THEN Ok([state |-> _newline(out.val.state),
                result |-> out.val.result \o <<"\n">>])
       ELSE out

\* w is render's width, in scope of the closure and not read by it
_visit_fix(fix, st, w) == FixLoop(<<Pair(0, fix)>>, st, <<>>)

---------------------------------------------------------------------------
(* The state steps, applied to a _State from _init() or from the caller *)

\* heap[1] is the marks dict of the state the steps are applied to
StartStates ==
    [head : BOOLEAN, line : BOOLEAN, lvl : 0..MaxLvl, pos : 0..MaxPos, marks : {1}]

Idle ==
    /\ calls = <<>>
    /\ layout = None

InitState ==
    /\ tab \in Tabs
    /\ width \in Widths
    /\ heap = <<NoDict>>
    /\ \/ state = [_init EXCEPT !.marks = 1] /\ start = "_init"
       \/ state \in StartStates /\ start = "caller"
    /\ op = "start"
    /\ arg = None
    /\ pre = state
    /\ ret = Ok(None)
    /\ Idle

\* a call f(..., state) whose outcome is out: a state returned replaces the
\* one threaded on, an exception leaves the caller's state as it was
Step(f, a, out, threads) ==
    /\ op' = f
    /\ arg' = a
    /\ pre' = state
    /\ ret' = out
    /\ state' = IF threads /\ out.err = "none" THEN out.val ELSE state
    /\ UNCHANGED <<tab, width, start, calls, heap, layout>>

IncPos(value) ==
    /\ state.pos + value <= MaxPos
    /\ Step("_inc_pos", PyInt(value), Ok(_inc_pos(state, value)), TRUE)

Indent ==
    /\ state.lvl <= MaxLvl
    /\ state.lvl >= 0 - MaxLvl
    /\ Step("_indent", PyInt(tab), _indent(tab, state), TRUE)

Newline == Step("_newline", None, Ok(_newline(state)), TRUE)

Reset == Step("_reset", None, Ok(_reset(state)), TRUE)

Offset == Step("_offset", None, Ok(_offset(state)), FALSE)

ShouldBreak(obj) ==
    Step("_should_break", obj, _should_break(obj, state, width), FALSE)

NextState ==
    \/ \E value \in 0..(MaxLen + 1) : IncPos(value)
    \/ Indent
    \/ Newline
    \/ Reset
    \/ Offset
    \/ \E obj \in Objs : ShouldBreak(obj)

SpecState == InitState /\ [][NextState]_vars

---------------------------------------------------------------------------
(* Claims about the state steps, checked under SpecState *)

StateSteps == {"_inc_pos", "_indent", "_newline", "_reset"}

Returned == ret.err = "none"

\* m is the least multiple of t that is >= l (strict: > l), for t > 0
LeastMultiple(m, t, l, strict) ==
    /\ m % t = 0
    /\ IF strict THEN m > l ELSE m >= l
    /\ \A k \in l..(m - 1) : k % t = 0 => (strict /\ k = l)

\* C3 as the claim states it: for tab > 0 and lvl >= 0, _indent sets lvl to
\* the least multiple of tab that is >= the previous lvl, so a lvl that is
\* already a multiple of tab is kept; and from the initial state lvl stays a
\* multiple of tab.
C3_IndentAtOrAbove ==
    /\ (op = "_indent" /\ tab > 0 /\ pre.lvl >= 0) =>
           (Returned /\ LeastMultiple(state.lvl, tab, pre.lvl, FALSE))
    /\ (start = "_init" /\ tab > 0) => state.lvl % tab = 0

\* C3 amended: for tab > 0 and lvl >= 0, _indent sets lvl to the least
\* multiple of tab that is strictly greater than the previous lvl, so a lvl
\* that is already a multiple of tab is raised by one further tab; and after
\* any sequence of steps from the initial state lvl is a multiple of tab.
C3_IndentStrictlyAbove ==
    /\ (op = "_indent" /\ tab > 0 /\ pre.lvl >= 0) =>
           /\ Returned
           /\ LeastMultiple(state.lvl, tab, pre.lvl, TRUE)
           /\ (pre.lvl % tab = 0 => state.lvl = pre.lvl + tab)
    /\ (start = "_init" /\ tab > 0) => state.lvl % tab = 0

\* _indent has acted on a lvl > 0 that was already a multiple of a tab > 1
C3_Witness ==
    /\ op = "_indent" /\ tab > 1 /\ Returned
    /\ pre.lvl > 0 /\ pre.lvl % tab = 0
    /\ state.lvl = pre.lvl + tab

\* C4: for tab <= 0 the indentation update is rejected with a defined error
\* or leaves lvl unchanged; it never takes a modulus by a non-positive tab,
\* never raises a division by zero and never lowers lvl.
C4_NonPositiveTab ==
    (op = "_indent" /\ tab <= 0) =>
        /\ ret.err # "ZeroDivisionError"
        /\ Returned => state.lvl = pre.lvl

\* C8: once line is true, _should_break returns True for any width without
\* consulting the lookahead, and line stays true across _inc_pos, _indent
\* and _newline steps; only _reset clears it.
C8_StickyBreak ==
    /\ (op = "_should_break" /\ pre.line) => (Returned /\ ret.val = TRUE)
    /\ (op \in {"_inc_pos", "_indent", "_newline", "_offset", "_should_break"}
            /\ pre.line) => state.line
    /\ (op \in StateSteps /\ pre.line /\ ~state.line) => op = "_reset"
    /\ op = "_reset" => ~state.line

\* _should_break has answered True at the largest width, on a state whose
\* line flag is set
C8_Witness ==
    /\ op = "_should_break" /\ pre.line /\ state.line
    /\ width = MaxWidth
    /\ Returned /\ ret.val = TRUE

\* C9: pos is set to 0 only by _newline or _reset, which also set head;
\* _offset returns max(0, lvl - pos) when head is true and 0 otherwise; so
\* right after a newline the padding of the first token equals lvl.
C9_LineStart ==
    /\ (op \in StateSteps /\ Returned /\ pre.pos # 0 /\ state.pos = 0) =>
           op \in {"_newline", "_reset"}
    /\ op \in {"_newline", "_reset"} =>
           (state.pos = 0 /\ state.head /\ _offset(state) = state.lvl)
    /\ op = "_offset" =>
           ret.val = IF pre.head THEN Max(0, pre.lvl - pre.pos) ELSE 0

\* C10: _inc_pos, _newline and _reset leave lvl and marks unchanged, _newline
\* leaves line unchanged, _indent with tab > 0 changes only lvl and strictly
\* increases it; so with tab > 0 lvl never decreases and, from the initial
\* state, stays >= 0.
C10_LvlFrame ==
    /\ op \in {"_inc_pos", "_newline", "_reset"} =>
           (state.lvl = pre.lvl /\ state.marks = pre.marks)
    /\ op = "_newline" => state.line = pre.line
    /\ (op = "_indent" /\ tab > 0) =>
           /\ Returned
           /\ state.lvl > pre.lvl
           /\ state = [pre EXCEPT !.lvl = state.lvl]
    /\ tab > 0 => state.lvl >= pre.lvl
    /\ (start = "_init" /\ tab > 0) => state.lvl >= 0

\* _reset has acted from the initial state on a raised lvl, with the line
\* start left behind
C10_Witness ==
    /\ start = "_init" /\ tab > 0
    /\ op = "_reset" /\ pre.lvl > 0 /\ pre.pos > 0
    /\ state.lvl = pre.lvl

---------------------------------------------------------------------------
(* _visit_fix applied to fixed trees, from any column *)

FixStartStates ==
    [head : BOOLEAN, line : {FALSE}, lvl : {0}, pos : 0..MaxPos, marks : {1}]

InitFix ==
    /\ tab = MaxTab
    /\ width \in Widths
    /\ heap = <<NoDict>>
    /\ state \in FixStartStates
    /\ start = "caller"
    /\ op = "start"
    /\ arg = None
    /\ pre = state
    /\ ret = Ok(None)
    /\ Idle

VisitFix(fix) ==
    /\ LET out == _visit_fix(fix, state, width)
       IN /\ op' = "_visit_fix"
          /\ arg' = fix
          /\ pre' = state
          /\ ret' = out
          /\ state' = IF out.err = "none" THEN out.val.state ELSE state
    /\ UNCHANGED <<tab, width, start, calls, heap, layout>>

\* one application to each drawn input: _visit_fix is a function of its
\* arguments alone
NextFix ==
    /\ op = "start"
    /\ \E fix \in FixTrees : VisitFix(fix)

SpecFix == InitFix /\ [][NextFix]_vars

\* the text of a fixed tree: its leaves left to right, one space between the
\* parts of a padded composition
RECURSIVE FixFlat(_)
FixFlat(fix) ==
    IF fix.tag = "_FixText" THEN fix.data
    ELSE FixFlat(fix.left) \o (IF fix.pad THEN <<" ">> ELSE <<>>)
             \o FixFlat(fix.right)

RECURSIVE FixHasNewline(_)
FixHasNewline(fix) ==
    IF fix.tag = "_FixText" THEN HasNewline(fix.data)
    ELSE FixHasNewline(fix.left) \/ FixHasNewline(fix.right)

\* C2: the outcome of rendering a fixed tree from a state is the same at
\* every width, the far larger ones included, and the string holds no
\* newline when no leaf holds one.
C2_FixWidthIndependent ==
    op = "_visit_fix" =>
        /\ \A w \in Widths \cup {MaxWidth + MaxPos + MaxLeaves * (MaxLen + 1)} :
               _visit_fix(arg, pre, w) = ret
        /\ (Returned /\ ~FixHasNewline(arg)) => ~HasNewline(ret.val.result)

\* a fixed text has been rendered at the smallest width, from a column that
\* already passes it
C2_Witness ==
    /\ op = "_visit_fix" /\ Returned
    /\ width = 0 /\ pre.pos > 0
    /\ Len(ret.val.result) > 0 /\ ~HasNewline(ret.val.result)
    /\ state.pos = pre.pos + Len(ret.val.result)

\* C7: _visit_fix returns the leaves of the tree left to right, each once,
\* one space between the parts of a padded _FixComp and nothing otherwise,
\* and a state whose pos is the entry pos plus the length of the string.
C7_FixResult ==
    op = "_visit_fix" =>
        /\ Returned
        /\ ret.val.result = FixFlat(arg)
        /\ ret.val.state.pos = pre.pos + Len(ret.val.result)

---------------------------------------------------------------------------
(* doc.py: render and the visitors it calls *)

_EOD == [tag |-> "_EOD"]
_Empty(doc) == [tag |-> "_Empty", doc |-> doc]
_Break(obj, doc) == [tag |-> "_Break", obj |-> obj, doc |-> doc]
_Line(obj) == [tag |-> "_Line", obj |-> obj]

Docs ==
    {_EOD, _Line(_Text(<<"x">>)), _Line(_Text(<<"\n">>)),
     _Empty(_Break(_Nest(_Text(<<"a">>)), _Line(_Fix(_FixText(<<"b">>)))))}

RenderTabs == {1, 2}
RenderWidths == {1, 80}

\* def _visit_doc(doc, state) -> Tuple[_State, str]: ...
_visit_doc(doc, st) == None

\* `_, result = v`: None cannot be unpacked
PyUnpack(v) ==
    IF v.py = "tuple" THEN Ok(v.items[2]) ELSE Raise("TypeError")

InitRender ==
    /\ tab = MaxTab
    /\ width = MaxWidth
    /\ heap = <<>>
    /\ state = None
    /\ start = "none"
    /\ op = "start"
    /\ arg = None
    /\ pre = None
    /\ ret = Ok(None)
    /\ Idle

\* render(doc, t, w) is entered: the state of the call is _init()
RenderCall(doc, t, w) ==
    /\ Len(calls) < MaxCalls
    /\ calls' = Append(calls, [doc |-> doc, tab |-> t, width |-> w,
                               pc |-> "_visit_doc", state |-> _init,
                               val |-> None, ret |-> Ok(None)])
    /\ heap' = Append(heap, NoDict)
    /\ UNCHANGED <<tab, width, state, op, arg, pre, ret, start, layout>>

\* the call _visit_doc(doc, _init()) of invocation i
RenderVisitDoc(i) ==
    /\ calls[i].pc = "_visit_doc"
    /\ calls' = [calls EXCEPT ![i].pc = "unpack",
                              ![i].val = _visit_doc(calls[i].doc, calls[i].state)]
    /\ UNCHANGED <<tab, width, state, op, arg, pre, ret, start, heap, layout>>

\* `_, result = ...; return result` of invocation i
RenderReturn(i) ==
    /\ calls[i].pc = "unpack"
    /\ LET out == PyUnpack(calls[i].val)
       IN calls' = [calls EXCEPT
                        ![i].pc = IF out.err = "none" THEN "returned" ELSE "raised",
                        ![i].ret = out]
    /\ UNCHANGED <<tab, width, state, op, arg, pre, ret, start, heap, layout>>

Next ==
    \/ \E doc \in Docs, t \in RenderTabs, w \in RenderWidths : RenderCall(doc, t, w)
    \/ \E i \in 1..Len(calls) : RenderVisitDoc(i)
    \/ \E i \in 1..Len(calls) : RenderReturn(i)

Init == InitRender

Spec == Init /\ [][Next]_vars

\* C1: for a well-formed document, tab > 0 and width > 0, render never ends
\* in an exception, and render of the single text "x" with tab 2 and width
\* 80 returns "x".
C1_RenderTotal ==
    \A i \in 1..Len(calls) :
        (calls[i].tab > 0 /\ calls[i].width > 0) =>
            /\ calls[i].pc # "raised"
            /\ (calls[i].pc = "returned" /\ calls[i].doc = _Line(_Text(<<"x">>)))
                   => calls[i].ret.val = <<"x">>

\* C6: every invocation of render works on a state built by _init() for it:
\* head true, line false, lvl 0, pos 0 and an empty marks dict of its own,
\* which no other invocation holds, however the invocations interleave.
C6_FreshState ==
    \A i \in 1..Len(calls) :
        LET st == calls[i].state
        IN /\ st.head /\ ~st.line /\ st.lvl = 0 /\ st.pos = 0
           /\ st.marks \in 1..Len(heap)
           /\ heap[st.marks] = NoDict
           /\ \A j \in 1..Len(calls) : j # i => calls[j].state.marks # st.marks

\* two invocations are in progress at once, the later one further on
C6_Witness ==
    /\ Len(calls) >= 2
    /\ calls[1].pc = "_visit_doc"
    /\ calls[2].pc = "unpack"
    /\ calls[1].doc = calls[2].doc

---------------------------------------------------------------------------
(* dsl.py: the layout combinators *)

null == [tag |-> "_Null"]
text(data) == [tag |-> "_Text", data |-> data]
fix(l) == [tag |-> "_Fix", layout |-> l]
grp(l) == [tag |-> "_Grp", layout |-> l]
seq(l) == [tag |-> "_Seq", layout |-> l]
nest(l) == [tag |-> "_Nest", layout |-> l]
pack(l) == [tag |-> "_Pack", layout |-> l]
line(left, right) == [tag |-> "_Line", left |-> left, right |-> right]
comp(left, right, pad, fixed) ==
    [tag |-> "_Comp", left |-> left, right |-> right, pad |-> pad, fix |-> fixed]

RECURSIVE Nodes(_)
Nodes(l) ==
    CASE l.tag \in {"_Null", "_Text"} -> 1
      [] l.tag \in {"_Line", "_Comp"} -> 1 + Nodes(l.left) + Nodes(l.right)
      [] OTHER -> 1 + Nodes(l.layout)

RECURSIVE LayoutHasNewline(_)
LayoutHasNewline(l) ==
    CASE l.tag = "_Null" -> FALSE
      [] l.tag = "_Text" -> HasNewline(l.data)
      [] l.tag \in {"_Line", "_Comp"} ->
             LayoutHasNewline(l.left) \/ LayoutHasNewline(l.right)
      [] OTHER -> LayoutHasNewline(l.layout)

Built == layout # None

\* what a caller has at hand to pass to a combinator
Operands ==
    {null} \cup {text(d) : d \in Texts} \cup (IF Built THEN {layout} ELSE {})

InitDsl ==
    /\ tab = MaxTab
    /\ width = MaxWidth
    /\ heap = <<>>
    /\ state = None
    /\ start = "none"
    /\ op = "start"
    /\ arg = None
    /\ pre = None
    /\ ret = Ok(None)
    /\ Idle

Build(f, l) ==
    /\ Nodes(l) <= MaxNodes
    /\ op' = f
    /\ ret' = Ok(l)
    /\ layout' = l
    /\ UNCHANGED <<tab, width, state, arg, pre, start, calls, heap>>

BuildNull == Build("null", null)
BuildText(data) == Build("text", text(data))
BuildFix == Built /\ Build("fix", fix(layout))
BuildGrp == Built /\ Build("grp", grp(layout))
BuildSeq == Built /\ Build("seq", seq(layout))
BuildNest == Built /\ Build("nest", nest(layout))
BuildPack == Built /\ Build("pack", pack(layout))
BuildLine(left, right) == Build("line", line(left, right))
BuildComp(left, right, pad, fixed) == Build("comp", comp(left, right, pad, fixed))

NextDsl ==
    \/ BuildNull
    \/ \E data \in Texts : BuildText(data)
    \/ BuildFix
    \/ BuildGrp
    \/ BuildSeq
    \/ BuildNest
    \/ BuildPack
    \/ \E left \in Operands, right \in Operands : BuildLine(left, right)
    \/ \E left \in Operands, right \in Operands, pad \in BOOLEAN, fixed \in BOOLEAN :
           BuildComp(left, right, pad, fixed)

SpecDsl == InitDsl /\ [][NextDsl]_vars

\* C5: text(data) with a line terminator in data is rejected with an error,
\* so no layout holds a text with a line terminator.
C5_TextRejected ==
    /\ (op = "text" /\ Returned) => ~HasNewline(ret.val.data)
    /\ Built => ~LayoutHasNewline(layout)

=============================================================================
